---- MODULE Spec2Model ----
\* Model of the image-embedding service of src/app.py: module-level loading of
\* the CLIP model and processor, and the POST /embedding handler, one
\* invocation per request, the invocations interleaved step by step.
EXTENDS Integers, Sequences, FiniteSets, TLC

\* ------------------------------------------------------------------ bounds
MaxReq == 2        \* handler invocations over the life of the process
EmbedDim == 2      \* length of an output row of the model
MaxPixel == 1      \* largest pixel value of the modelled images

\* requests.get(..., timeout=10)
Timeout == 10

\* Time is observed in steps of half the timeout.
Quantum == Timeout \div 2

Reqs == 1..MaxReq
None == [t |-> "none"]

\* ------------------------------------------------------- request bodies
\* A string is the sequence of its parts, so that emptiness and the scheme of
\* a URL can be read off it.
EmptyStr == << >>
Strings == {EmptyStr, <<"http://", "a/x.jpg">>, <<"http://", "b/x.jpg">>}

Null == [t |-> "null"]
Str(s) == [t |-> "str", v |-> s]
JsonValues == {Null} \cup {Str(s) : s \in Strings}

\* A request body: bytes that are no JSON, a JSON array, or a JSON object
\* which has an image_url member or not.
Bodies ==
    {[kind |-> "not_json"], [kind |-> "array"], [kind |-> "object", has |-> FALSE]}
    \cup {[kind |-> "object", has |-> TRUE, image_url |-> v] : v \in JsonValues}

\* A Req whose field has a default: image_url: str = "".
Validate_Default(body) ==
    IF body.kind # "object" THEN [ok |-> FALSE]
    ELSE IF ~body.has THEN [ok |-> TRUE, image_url |-> EmptyStr]
    ELSE IF body.image_url.t # "str" THEN [ok |-> FALSE]
    ELSE [ok |-> TRUE, image_url |-> body.image_url.v]

\* A Req whose field is constrained: image_url: constr(min_length=1).
Validate_NonEmpty(body) ==
    IF body.kind # "object" THEN [ok |-> FALSE]
    ELSE IF ~body.has THEN [ok |-> FALSE]
    ELSE IF body.image_url.t # "str" THEN [ok |-> FALSE]
    ELSE IF body.image_url.v = EmptyStr THEN [ok |-> FALSE]
    ELSE [ok |-> TRUE, image_url |-> body.image_url.v]

\* class Req(BaseModel): image_url: str. The body must be an object, the
\* field is required and must be a string; any string is taken, the empty one
\* included, and nothing about its form is checked.
Validate(body) ==
    IF body.kind # "object" THEN [ok |-> FALSE]
    ELSE IF ~body.has THEN [ok |-> FALSE]
    ELSE IF body.image_url.t # "str" THEN [ok |-> FALSE]
    ELSE [ok |-> TRUE, image_url |-> body.image_url.v]

\* The framework's answer to a body that does not validate.
SchemaError == [status |-> 422, kind |-> "schema_error"]

\* --------------------------------------------------------------- fetching
\* requests refuses a URL without a scheme before anything is sent.
HasScheme(url) == Len(url) >= 2 /\ url[1] = "http://"

\* Final status codes a server can answer with (redirects already followed).
Statuses == {200, 300, 404}

\* A raise_for_status that lets client errors through.
RaisesForStatus_ServerOnly(status) == 500 <= status /\ status < 600

\* r.raise_for_status(): raises for 4xx and 5xx, and for nothing else.
RaisesForStatus(status) == 400 <= status /\ status < 600

\* Bodies a server can send: the first byte is the container's magic number
\* (1 is an image format, 0 is none), the rest are the pixels.
Pixels == 0..MaxPixel
Magic == {1}
Contents == {<<0>>} \cup {<<1, p>> : p \in Pixels}

\* str(e) of the exceptions of the try block
ErrInvalidUrl(url) == [exc |-> "MissingSchema", url |-> url]
ErrConnection(url) == [exc |-> "ConnectionError", url |-> url]
ErrTimeout(url) == [exc |-> "Timeout", url |-> url, timeout |-> Timeout]
ErrStatus(status, url) == [exc |-> "HTTPError", url |-> url, status |-> status]

\* raise HTTPException(status_code=400, detail=f"Failed to fetch image: {e}")
FetchFailed(e) ==
    [status |-> 400, kind |-> "http_exception",
     detail |-> [prefix |-> "Failed to fetch image: ", e |-> e]]

\* An exception that leaves the handler: the framework answers 500, no detail.
Unhandled == [status |-> 500, kind |-> "unhandled"]

\* return {"embedding": vec}
Ok(vec) == [status |-> 200, kind |-> "ok", embedding |-> vec]

\* ------------------------------------------------------------- the pipeline
\* Image.open(BytesIO(r.content)).convert("RGB"): the format is read from the
\* bytes; bytes of no known format raise.
Decodable_Any(content) == Len(content) >= 1
Decodable(content) == Len(content) >= 2 /\ content[1] \in Magic
ImageOpen(content) == [mode |-> "RGB", pixels |-> Tail(content)]

\* A processor call handed the image twice.
Processor_Pair(img) == [pixel_values |-> << img.pixels, img.pixels >>]

\* processor(images=img, return_tensors="pt"): a batch holding the one image.
Processor(img) == [pixel_values |-> << img.pixels >>]

\* One output row per image of the batch. In evaluation mode a row is a
\* function of the image alone; a model left in training mode adds noise
\* (dropout) that differs from call to call.
Row(px, noise) == [i \in 1..EmbedDim |-> (px[1] * i + i + noise) % 5]
Noise_Dropout(training) == {0, 1}
Noise(training) == IF training THEN {0, 1} ELSE {0}
GetImageFeatures(inputs, noise) ==
    [b \in 1..Len(inputs.pixel_values) |-> Row(inputs.pixel_values[b], noise)]

\* ------------------------------------------------------------------ state
VARIABLES
    procPc,      \* position of the module's top-level code
    model,       \* the global model
    processor,   \* the global processor
    h            \* the handler invocations, one per request

vars == <<procPc, model, processor, h>>

\* An invocation: its position, the body it was sent, its locals (req, r, img,
\* inputs, vec), its response, and counts of the calls it has made.
Idle ==
    [pc |-> "idle", body |-> None, req |-> None, gets |-> 0, waited |-> 0,
     r |-> None, img |-> None, inputs |-> None, vec |-> None, infers |-> 0,
     batch |-> 0, resp |-> None]

Init ==
    /\ procPc = "load_model"
    /\ model = [loaded |-> FALSE, training |-> TRUE, loads |-> 0]
    /\ processor = [loaded |-> FALSE, loads |-> 0]
    /\ h = [q \in Reqs |-> Idle]

\* ---------------------------------------------------------------- startup
\* model = CLIPModel.from_pretrained(...): the model comes back in evaluation
\* mode. A failure to load raises at import and the process never serves.
LoadModel ==
    /\ procPc = "load_model"
    /\ \E ok \in BOOLEAN :
         IF ok
         THEN /\ model' = [loaded |-> TRUE, training |-> FALSE, loads |-> model.loads + 1]
              /\ procPc' = "load_processor"
         ELSE /\ procPc' = "crashed"
              /\ UNCHANGED model
    /\ UNCHANGED <<processor, h>>

\* A load whose failure is swallowed: the module goes on without a processor.
LoadProcessor_Swallow ==
    /\ procPc = "load_processor"
    /\ \E ok \in BOOLEAN :
         IF ok
         THEN processor' = [loaded |-> TRUE, loads |-> processor.loads + 1]
         ELSE UNCHANGED processor
    /\ procPc' = "eval"
    /\ UNCHANGED <<model, h>>

\* processor = CLIPProcessor.from_pretrained(...)
LoadProcessor ==
    /\ procPc = "load_processor"
    /\ \E ok \in BOOLEAN :
         IF ok
         THEN /\ processor' = [loaded |-> TRUE, loads |-> processor.loads + 1]
              /\ procPc' = "eval"
         ELSE /\ procPc' = "crashed"
              /\ UNCHANGED processor
    /\ UNCHANGED <<model, h>>

\* model.eval()
ModelEval ==
    /\ procPc = "eval"
    /\ model' = [model EXCEPT !.training = FALSE]
    /\ procPc' = "serving"
    /\ UNCHANGED <<processor, h>>

\* ------------------------------------------------------------ the handler
Set(q, rec) == h' = [h EXCEPT ![q] = rec]

\* A request arrives at a serving process; invocations are numbered in order
\* of arrival. The framework builds Req from the body; a body that does not
\* validate is answered without calling embedding.
Receive(q) ==
    /\ procPc = "serving"
    /\ h[q].pc = "idle"
    /\ \A p \in 1..(q - 1) : h[p].pc # "idle"
    /\ \E body \in Bodies :
         LET v == Validate(body) IN
         IF v.ok
         THEN Set(q, [h[q] EXCEPT !.pc = "get", !.body = body,
                                  !.req = [image_url |-> v.image_url]])
         ELSE Set(q, [h[q] EXCEPT !.pc = "done", !.body = body, !.resp = SchemaError])
    /\ UNCHANGED <<procPc, model, processor>>

\* requests.get(req.image_url, timeout=10) is called: a URL without a scheme
\* raises at once, otherwise the request is sent.
Get(q) ==
    /\ h[q].pc = "get"
    /\ LET url == h[q].req.image_url IN
       IF HasScheme(url)
       THEN Set(q, [h[q] EXCEPT !.pc = "recv", !.gets = @ + 1])
       ELSE Set(q, [h[q] EXCEPT !.pc = "done", !.gets = @ + 1,
                                !.resp = FetchFailed(ErrInvalidUrl(url))])
    /\ UNCHANGED <<procPc, model, processor>>

\* While the handler waits on the socket, Quantum seconds pass with nothing
\* arriving.
Tick(q) ==
    /\ h[q].pc = "recv"
    /\ h[q].waited < Timeout
    /\ Set(q, [h[q] EXCEPT !.waited = @ + Quantum])
    /\ UNCHANGED <<procPc, model, processor>>

\* Part of the response arrives before the timeout has run out: the timeout
\* bounds the wait for the next bytes, not the whole download, so the wait
\* starts again.
RecvPart(q) ==
    /\ h[q].pc = "recv"
    /\ h[q].waited < Timeout
    /\ Set(q, [h[q] EXCEPT !.waited = 0])
    /\ UNCHANGED <<procPc, model, processor>>

\* A get without timeout: the wait goes on.
RecvTimeout_Unset(q) ==
    /\ h[q].pc = "recv"
    /\ h[q].waited = Timeout
    /\ UNCHANGED vars

\* Nothing has arrived for Timeout seconds: requests.get raises.
RecvTimeout(q) ==
    /\ h[q].pc = "recv"
    /\ h[q].waited = Timeout
    /\ Set(q, [h[q] EXCEPT !.pc = "done", !.waited = 0,
                           !.resp = FetchFailed(ErrTimeout(h[q].req.image_url))])
    /\ UNCHANGED <<procPc, model, processor>>

\* A handler that tries once more after a failed connection.
RecvError_Retry(q) ==
    /\ h[q].pc = "recv"
    /\ h[q].waited < Timeout
    /\ IF h[q].gets < 2
       THEN Set(q, [h[q] EXCEPT !.gets = @ + 1, !.waited = 0])
       ELSE Set(q, [h[q] EXCEPT !.pc = "done", !.waited = 0,
                                !.resp = FetchFailed(ErrConnection(h[q].req.image_url))])
    /\ UNCHANGED <<procPc, model, processor>>

\* The connection fails: requests.get raises.
RecvError(q) ==
    /\ h[q].pc = "recv"
    /\ h[q].waited < Timeout
    /\ Set(q, [h[q] EXCEPT !.pc = "done", !.waited = 0,
                           !.resp = FetchFailed(ErrConnection(h[q].req.image_url))])
    /\ UNCHANGED <<procPc, model, processor>>

\* The response is complete: requests.get returns r, and r.raise_for_status()
\* raises or not.
RecvDone(q) ==
    /\ h[q].pc = "recv"
    /\ h[q].waited < Timeout
    /\ \E status \in Statuses, content \in Contents :
         LET r == [status_code |-> status, content |-> content] IN
         IF RaisesForStatus(status)
         THEN Set(q, [h[q] EXCEPT !.pc = "done", !.waited = 0, !.r = r,
                        !.resp = FetchFailed(ErrStatus(status, h[q].req.image_url))])
         ELSE Set(q, [h[q] EXCEPT !.pc = "open", !.waited = 0, !.r = r])
    /\ UNCHANGED <<procPc, model, processor>>

\* img = Image.open(BytesIO(r.content)).convert("RGB")
Open(q) ==
    /\ h[q].pc = "open"
    /\ IF Decodable(h[q].r.content)
       THEN Set(q, [h[q] EXCEPT !.pc = "embed", !.img = ImageOpen(h[q].r.content)])
       ELSE Set(q, [h[q] EXCEPT !.pc = "done", !.resp = Unhandled])
    /\ UNCHANGED <<procPc, model, processor>>

\* A handler that loads the model again before it uses it.
Embed_Reload(q) ==
    /\ h[q].pc = "embed"
    /\ \E noise \in Noise(model.training) :
         LET inputs == Processor(h[q].img)
             features == GetImageFeatures(inputs, noise)
         IN  Set(q, [h[q] EXCEPT !.pc = "done", !.inputs = inputs,
                                  !.infers = @ + 1, !.batch = Len(features),
                                  !.vec = [list |-> features[1]],
                                  !.resp = Ok(features[1])])
    /\ model' = [model EXCEPT !.loads = @ + 1]
    /\ UNCHANGED <<procPc, processor>>

\* Preprocess + compute embedding: inputs = processor(images=img, ...);
\* features = model.get_image_features(**inputs); vec = features[0].tolist();
\* return {"embedding": vec}
Embed(q) ==
    /\ h[q].pc = "embed"
    /\ \E noise \in Noise(model.training) :
         LET inputs == Processor(h[q].img)
             features == GetImageFeatures(inputs, noise)
         IN  Set(q, [h[q] EXCEPT !.pc = "done", !.inputs = inputs,
                                  !.infers = @ + 1, !.batch = Len(features),
                                  !.vec = [list |-> features[1]],
                                  !.resp = Ok(features[1])])
    /\ UNCHANGED <<procPc, model, processor>>

\* The steps the handler takes by itself, one after the other.
Own(q) ==
    \/ Get(q)
    \/ RecvTimeout(q)
    \/ Open(q)
    \/ Embed(q)

\* The steps that wait for time to pass or for the remote server.
Remote(q) ==
    \/ Tick(q)
    \/ RecvPart(q)
    \/ RecvError(q)
    \/ RecvDone(q)

Next ==
    \/ LoadModel
    \/ LoadProcessor
    \/ ModelEval
    \/ \E q \in Reqs : Receive(q)
    \/ \E q \in Reqs : Own(q)
    \/ \E q \in Reqs : Remote(q)

Spec == Init /\ [][Next]_vars

\* ======================================================== the properties
Arrived(q) == h[q].pc # "idle"
Done(q) == h[q].pc = "done"
Validated(q) == h[q].req # None
Url(q) == h[q].req.image_url
\* requests.get was called and raised
GetRaised(q) == h[q].gets >= 1 /\ Done(q) /\ h[q].r = None
\* requests.get returned a response
GetReturned(q) == h[q].r # None
Success(status) == 200 <= status /\ status <= 299
ClientOrServerError(status) == 400 <= status /\ status <= 599
\* nothing of decode, preprocessing or inference has happened
NoPipeline(q) ==
    h[q].img = None /\ h[q].inputs = None /\ h[q].vec = None /\ h[q].infers = 0
IsFetchFailure(resp, url) ==
    /\ resp.status = 400
    /\ resp.detail.prefix = "Failed to fetch image: "
    /\ resp.detail.e.url = url
    /\ resp.detail.e.exc \in {"MissingSchema", "ConnectionError", "Timeout", "HTTPError"}

\* C1 as stated: whenever the GET of a validated request fails, a status
\* outside 2xx included, the request is answered 400 "Failed to fetch image"
\* and no decode, preprocessing or inference happens for it.
C1_AnyNonSuccessIs400 ==
    \A q \in Reqs :
        (GetRaised(q) \/ (GetReturned(q) /\ ~Success(h[q].r.status_code)))
        => /\ Done(q)
           /\ IsFetchFailure(h[q].resp, Url(q))
           /\ NoPipeline(q)

\* C1 amended: whenever requests.get raises, or returns a 4xx or 5xx status,
\* the request is answered 400 with detail "Failed to fetch image: <error>",
\* the error being the one raised, and no decode, preprocessing or inference
\* happens for it. (A final status that is neither 2xx nor 4xx/5xx is not a
\* failure to the handler.)
C1_FetchFailureIs400 ==
    \A q \in Reqs :
        /\ GetRaised(q)
           => /\ IsFetchFailure(h[q].resp, Url(q))
              /\ h[q].resp.detail.e \in
                   {ErrInvalidUrl(Url(q)), ErrConnection(Url(q)), ErrTimeout(Url(q))}
              /\ (~HasScheme(Url(q)) => h[q].resp.detail.e = ErrInvalidUrl(Url(q)))
              /\ NoPipeline(q)
        /\ (GetReturned(q) /\ ClientOrServerError(h[q].r.status_code))
           => /\ Done(q)
              /\ IsFetchFailure(h[q].resp, Url(q))
              /\ h[q].resp.detail.e = ErrStatus(h[q].r.status_code, Url(q))
              /\ NoPipeline(q)

\* A request whose URL answered 404 has been answered 400.
C1_Witness ==
    \E q \in Reqs :
        /\ GetReturned(q) /\ h[q].r.status_code = 404
        /\ Done(q) /\ h[q].resp.status = 400

\* C2: a body that is no JSON object, or an object without image_url, or with
\* a null image_url, is answered with the 4xx schema error, never 200, and the
\* handler never runs for it: no Req, no GET, no decode, no inference.
Malformed(body) ==
    \/ body.kind # "object"
    \/ ~body.has
    \/ body.image_url = Null
C2_MalformedBodyRejected ==
    \A q \in Reqs :
        (Arrived(q) /\ Malformed(h[q].body))
        => /\ Done(q)
           /\ h[q].resp = SchemaError
           /\ 400 <= h[q].resp.status /\ h[q].resp.status <= 499
           /\ ~Validated(q)
           /\ h[q].gets = 0 /\ h[q].r = None
           /\ NoPipeline(q)

\* The body {} has been answered with the schema error.
C2_Witness ==
    \E q \in Reqs :
        /\ h[q].body = [kind |-> "object", has |-> FALSE]
        /\ h[q].resp = SchemaError

\* C3 as stated: a body whose image_url is the empty string is rejected by
\* validation with the schema error, never reaches the fetch and is never
\* answered "Failed to fetch image".
EmptyUrlBody == [kind |-> "object", has |-> TRUE, image_url |-> Str(EmptyStr)]
C3_EmptyUrlRejected ==
    \A q \in Reqs :
        (Arrived(q) /\ h[q].body = EmptyUrlBody)
        => /\ ~Validated(q)
           /\ h[q].gets = 0
           /\ h[q].resp = SchemaError

\* C3 amended: validation accepts every body whose image_url is a string, the
\* empty string included; the body {"image_url": ""} reaches the fetch step,
\* where the client refuses the URL, and is answered 400 "Failed to fetch
\* image".
C3_AnyStringAccepted ==
    \A q \in Reqs :
        (Arrived(q) /\ h[q].body.kind = "object" /\ h[q].body.has
                    /\ h[q].body.image_url.t = "str")
        => /\ h[q].req = [image_url |-> h[q].body.image_url.v]
           /\ h[q].resp # SchemaError
           /\ (h[q].body = EmptyUrlBody /\ Done(q))
              => /\ h[q].gets = 1
                 /\ h[q].resp = FetchFailed(ErrInvalidUrl(EmptyStr))

\* The body {"image_url": ""} has been answered 400 after one call of get.
C3_Witness ==
    \E q \in Reqs :
        /\ h[q].body = EmptyUrlBody
        /\ h[q].gets = 1
        /\ Done(q) /\ h[q].resp.status = 400

\* C4: when the response has a 2xx status and its bytes are no decodable
\* image, the request ends with the unhandled 500 that carries no detail:
\* never 200, never the 400 fetch failure, and inference is never invoked.
NotAnImage(content) == content \notin {<<1, p>> : p \in Pixels}
C4_UndecodableIs500 ==
    \A q \in Reqs :
        (GetReturned(q) /\ Success(h[q].r.status_code) /\ NotAnImage(h[q].r.content))
        => /\ h[q].pc \in {"open", "done"}
           /\ Done(q) => h[q].resp = Unhandled /\ h[q].resp.status = 500
           /\ NoPipeline(q)

\* A 200 response with bytes that are no image has been answered 500.
C4_Witness ==
    \E q \in Reqs :
        /\ GetReturned(q) /\ h[q].r = [status_code |-> 200, content |-> <<0>>]
        /\ Done(q) /\ h[q].resp = Unhandled

RECURSIVE SumGets(_)
SumGets(S) ==
    IF S = {} THEN 0
    ELSE LET q == CHOOSE x \in S : TRUE IN h[q].gets + SumGets(S \ {q})

\* C5: a validated request calls requests.get exactly once, whether the call
\* fails or an earlier request has already fetched the same URL; a request
\* that is not validated calls it never; so the number of calls is the number
\* of validated requests that have reached the fetch.
C5_OneGetPerRequest ==
    /\ \A q \in Reqs :
        /\ h[q].gets <= 1
        /\ (Validated(q) /\ h[q].pc # "get") => h[q].gets = 1
        /\ ~Validated(q) => h[q].gets = 0
    /\ SumGets(Reqs) = Cardinality({q \in Reqs : Validated(q) /\ h[q].pc # "get"})

\* A URL that an earlier request fetched and embedded has been fetched again
\* by a later request, and a failed fetch was left at one attempt.
C5_Witness ==
    \E p, q \in Reqs :
        /\ p < q
        /\ Done(p) /\ h[p].resp.status = 200
        /\ Validated(q) /\ Url(q) = Url(p)
        /\ h[q].gets = 1 /\ Done(q) /\ GetRaised(q)

\* The handler's thread is scheduled, and time passes: every step the handler
\* takes by itself happens; what the remote server sends is up to the server.
FairSpec ==
    /\ Spec
    /\ \A q \in Reqs : WF_vars(Own(q)) /\ WF_vars(Tick(q))

\* the invocation was answered 400 for a timeout
TimedOut(q) ==
    Done(q) /\ Validated(q) /\ h[q].resp = FetchFailed(ErrTimeout(Url(q)))

\* C6 as stated: every started invocation eventually ends with its response.
C6_AlwaysTerminates == \A q \in Reqs : Arrived(q) ~> Done(q)

\* C6 amended: an invocation ends exactly when it has its one response, which
\* then never changes; the handler never waits more than Timeout seconds for
\* the next bytes, and a wait that reaches Timeout is answered 400; every
\* started invocation ends unless the server keeps sending parts of its
\* response without end, each before the timeout runs out.
C6_TerminatesUnlessTrickled ==
    /\ [](\A q \in Reqs : /\ h[q].waited <= Timeout
                          /\ Done(q) <=> h[q].resp # None)
    /\ [][\A q \in Reqs : Done(q) => h'[q] = h[q]]_vars
    /\ \A q \in Reqs :
        (h[q].pc = "recv" /\ h[q].waited = Timeout)
        ~> TimedOut(q)
    /\ \A q \in Reqs :
        \/ Arrived(q) ~> Done(q)
        \/ []<><<RecvPart(q)>>_vars

\* A server that stayed silent for Timeout seconds has been answered 400
\* while another invocation is still receiving.
C6_Witness ==
    \E p, q \in Reqs :
        /\ TimedOut(q)
        /\ h[p].pc = "recv" /\ h[p].waited > 0

\* C7: model and processor are loaded once, before serving, and no step
\* taken while serving changes them; a step changes the data of one
\* invocation only.
C7_HolderReadOnly ==
    /\ [](/\ model.loads <= 1 /\ processor.loads <= 1
          /\ procPc = "serving" => model.loads = 1 /\ processor.loads = 1)
    /\ [][procPc = "serving" => model' = model /\ processor' = processor]_vars
    /\ [][\A q \in Reqs : h'[q] # h[q] => \A p \in Reqs \ {q} : h'[p] = h[p]]_vars

\* Two invocations are at the inference call at once, on the once-loaded model.
C7_Witness ==
    \E p, q \in Reqs :
        /\ p # q
        /\ h[p].pc = "embed" /\ h[q].pc = "embed"
        /\ model.loads = 1

Embedded(q) == Done(q) /\ h[q].resp.kind = "ok"

HolderState ==
    IF procPc = "serving" /\ model.loaded /\ processor.loaded /\ ~model.training
    THEN "ready" ELSE "uninitialized"

\* C9: a request is handled only by a process whose model and processor are
\* loaded and whose model is in evaluation mode; a process whose load failed
\* never handles a request and stays down; the holder only ever goes from
\* uninitialized to ready.
C9_ServesOnlyWhenReady ==
    /\ [](\A q \in Reqs : Arrived(q) => HolderState = "ready")
    /\ [](procPc = "crashed" => \A q \in Reqs : ~Arrived(q))
    /\ [][procPc = "crashed" => procPc' = "crashed"]_vars
    /\ [][HolderState' # HolderState
          => HolderState = "uninitialized" /\ HolderState' = "ready"]_vars

\* The processor failed to load after the model had loaded: the process is down.
C9_Witness ==
    /\ procPc = "crashed"
    /\ model.loaded
    /\ ~processor.loaded

\* What the four outcomes have in common, whatever the status of the fetch.
Classified(q) ==
    /\ h[q].resp.kind \in {"schema_error", "http_exception", "unhandled", "ok"}
    /\ h[q].resp.kind = "schema_error"
       => h[q].resp.status = 422 /\ ~Validated(q) /\ h[q].gets = 0 /\ NoPipeline(q)
    /\ h[q].resp.kind = "http_exception"
       => h[q].resp.status = 400 /\ Validated(q) /\ h[q].gets = 1 /\ NoPipeline(q)
    /\ h[q].resp.kind = "unhandled"
       => /\ h[q].resp.status = 500 /\ GetReturned(q) /\ h[q].gets = 1
          /\ NoPipeline(q)
    /\ h[q].resp.kind = "ok"
       => /\ h[q].resp.status = 200
          /\ Validated(q) /\ h[q].gets = 1 /\ GetReturned(q)
          /\ Decodable(h[q].r.content)
          /\ h[q].img = ImageOpen(h[q].r.content) /\ h[q].img.mode = "RGB"
          /\ h[q].inputs = Processor(h[q].img)
          /\ h[q].infers = 1 /\ h[q].batch = 1
          /\ h[q].vec = [list |-> h[q].resp.embedding]

\* C10 as stated: every finished request has one of the four outcomes, no step
\* runs after a failed one, and a 200 is returned only after validation, one
\* fetch that returned a success (2xx) status, decode, preprocessing and one
\* inference on a batch of one, whose row is the vector returned.
C10_OkOnlyAfterSuccessStatus ==
    \A q \in Reqs :
        Done(q) => /\ Classified(q)
                   /\ h[q].resp.kind = "ok" => Success(h[q].r.status_code)

\* C10 amended: the same, the fetch having returned a status that
\* raise_for_status lets through (any status but 4xx and 5xx).
C10_OkOnlyAfterFullPipeline ==
    \A q \in Reqs :
        Done(q) => /\ Classified(q)
                   /\ h[q].resp.kind = "ok" => ~ClientOrServerError(h[q].r.status_code)

\* A request has been answered 200 with an embedding.
C10_Witness ==
    \E q \in Reqs :
        /\ Embedded(q)
        /\ h[q].infers = 1 /\ h[q].batch = 1
        /\ h[q].r.status_code = 200
====
